---- MODULE Spec2Model ----
(***************************************************************************)
(* cursor-docker (src/tools/cursor-docker.py): a sequential orchestrator   *)
(* that provisions a configuration directory, resolves the latest Cursor   *)
(* version from the vendor page, builds a Docker image when needed and     *)
(* replaces itself with `docker run`.                                      *)
(*                                                                         *)
(* Text is modelled as a sequence of one-character strings.  A command     *)
(* line argument is a sequence of such pieces too; the fixed words of a    *)
(* command ("docker", "run", ...) are written as one piece.                *)
(***************************************************************************)
EXTENDS Integers, Sequences, FiniteSets, TLC

\* ------------------------------------------------------------------ bounds
\* Number of program invocations followed one after the other.
MaxInvocations == 2
\* Length of the docker-args files enumerated for read_docker_args.
MaxFileLen == 5
\* Number of pieces of the vendor pages enumerated for get_cursor_version.
MaxBodyLen == 4

\* --------------------------------------------------------------- constants
VERSION == <<"1.0.0">>

\* The head of the DOCKERFILE template: like the template it starts with a
\* line break, which setup_cursor_dirs strips before writing.
DOCKERFILE == <<"\n", "F", "R", "O", "M", " ", "d", "e", "b", "i", "a", "n", "\n">>

DEFAULT_DOCKER_ARGS == <<>>

\* The literal the regular expression of get_cursor_version starts with:
\* https://downloads.cursor.com/lab/  (the dots are escaped in the source).
DownloadPrefix ==
    <<"h", "t", "t", "p", "s", ":", "/", "/",
      "d", "o", "w", "n", "l", "o", "a", "d", "s", ".",
      "c", "u", "r", "s", "o", "r", ".", "c", "o", "m", "/",
      "l", "a", "b", "/">>

\* The characters the capture group [^/"]+ excludes.
CaptureStops == {"/", "\""}

\* Characters str.strip() removes and str.splitlines() breaks at, restricted
\* to the ones of the enumerated alphabet.
LineBreaks == {"\n"}
Whitespace == {" ", "\t"} \cup LineBreaks
\* shlex.whitespace
ShlexWhitespace == {" ", "\t", "\r", "\n"}
\* Of shlex.quotes, the single quote (no escape processing inside it).
ShlexQuotes == {"'"}

\* ------------------------------------------------------------ text helpers
\* str.lstrip / str.strip
RECURSIVE LStrip(_)
LStrip(s) ==
    IF s # <<>> /\ Head(s) \in Whitespace THEN LStrip(Tail(s)) ELSE s

RECURSIVE RStrip(_)
RStrip(s) ==
    IF s # <<>> /\ s[Len(s)] \in Whitespace
    THEN RStrip(SubSeq(s, 1, Len(s) - 1)) ELSE s

Strip(s) == RStrip(LStrip(s))

\* str.splitlines: the pieces between line breaks; a final line break opens
\* no further (empty) line, and the empty text has no lines.
RECURSIVE SplitLinesFrom(_, _, _)
SplitLinesFrom(s, i, cur) ==
    IF i > Len(s) THEN (IF cur = <<>> THEN <<>> ELSE <<cur>>)
    ELSE IF s[i] \in LineBreaks
         THEN <<cur>> \o SplitLinesFrom(s, i + 1, <<>>)
         ELSE SplitLinesFrom(s, i + 1, Append(cur, s[i]))

SplitLines(s) == SplitLinesFrom(s, 1, <<>>)

\* " ".join(lines)
RECURSIVE JoinSpace(_)
JoinSpace(lines) ==
    IF lines = <<>> THEN <<>>
    ELSE IF Len(lines) = 1 THEN lines[1]
    ELSE lines[1] \o <<" ">> \o JoinSpace(Tail(lines))

\* shlex.split(s) in POSIX mode with whitespace_split and no commenters, on
\* text without escape characters or double quotes.  st is shlex's state:
\* "ws" (' '), "a" (in a word), "q" (inside single quotes).  An unclosed
\* quote raises ValueError (ok = FALSE).
RECURSIVE Shlex(_, _, _, _, _, _)
Shlex(s, i, st, tok, quoted, acc) ==
    IF i > Len(s)
    THEN IF st = "q" THEN [ok |-> FALSE, tokens |-> <<>>]
         ELSE [ok |-> TRUE,
               tokens |-> IF st = "a" /\ (tok # <<>> \/ quoted)
                          THEN Append(acc, tok) ELSE acc]
    ELSE LET c == s[i] IN
         CASE st = "ws" ->
                IF c \in ShlexWhitespace THEN Shlex(s, i + 1, "ws", <<>>, FALSE, acc)
                ELSE IF c \in ShlexQuotes THEN Shlex(s, i + 1, "q", <<>>, FALSE, acc)
                ELSE Shlex(s, i + 1, "a", <<c>>, FALSE, acc)
           [] st = "q" ->
                IF c \in ShlexQuotes THEN Shlex(s, i + 1, "a", tok, TRUE, acc)
                ELSE Shlex(s, i + 1, "q", Append(tok, c), TRUE, acc)
           [] OTHER ->
                IF c \in ShlexWhitespace
                THEN Shlex(s, i + 1, "ws", <<>>, FALSE,
                           IF tok # <<>> \/ quoted THEN Append(acc, tok) ELSE acc)
                ELSE IF c \in ShlexQuotes THEN Shlex(s, i + 1, "q", tok, quoted, acc)
                ELSE Shlex(s, i + 1, "a", Append(tok, c), quoted, acc)

ShlexSplit(s) == Shlex(s, 1, "ws", <<>>, FALSE, <<>>)

\* ------------------------------------------------- get_cursor_version
\* Whether the regular expression matches with its first character at i:
\* the literal prefix, then at least one captured character.
MatchAt(s, i) ==
    /\ i + Len(DownloadPrefix) <= Len(s)
    /\ SubSeq(s, i, i + Len(DownloadPrefix) - 1) = DownloadPrefix
    /\ s[i + Len(DownloadPrefix)] \notin CaptureStops

\* re.search: the leftmost position the expression matches at, 0 for none.
RECURSIVE SearchFrom(_, _)
SearchFrom(s, i) ==
    IF i > Len(s) THEN 0
    ELSE IF MatchAt(s, i) THEN i ELSE SearchFrom(s, i + 1)

\* Faulty variant: the capture group written [^/]+, the quote forgotten.
RECURSIVE CaptureToSlash(_, _)
CaptureToSlash(s, j) ==
    IF j > Len(s) \/ s[j] = "/" THEN <<>>
    ELSE <<s[j]>> \o CaptureToSlash(s, j + 1)

\* The greedy capture [^/"]+ starting at position j.
RECURSIVE CaptureFrom(_, _)
CaptureFrom(s, j) ==
    IF j > Len(s) \/ s[j] \in CaptureStops THEN <<>>
    ELSE <<s[j]>> \o CaptureFrom(s, j + 1)

\* get_cursor_version on the decoded page: found = FALSE stands for the
\* RuntimeError "Could not find Cursor version in install page".
ParseVersion(content) ==
    LET m == SearchFrom(content, 1) IN
    IF m = 0 THEN [found |-> FALSE, version |-> <<>>]
    ELSE [found |-> TRUE,
          version |-> CaptureFrom(content, m + Len(DownloadPrefix))]

\* --------------------------------------------------- read_docker_args
\* Faulty variant: the comment test dropped, only empty lines are left out.
RECURSIVE KeptLinesWithComments(_)
KeptLinesWithComments(lines) ==
    IF lines = <<>> THEN <<>>
    ELSE LET line == Strip(Head(lines)) IN
         IF line # <<>>
         THEN <<line>> \o KeptLinesWithComments(Tail(lines))
         ELSE KeptLinesWithComments(Tail(lines))

\* The lines read_docker_args keeps: stripped, non-empty, not a comment.
RECURSIVE KeptLines(_)
KeptLines(lines) ==
    IF lines = <<>> THEN <<>>
    ELSE LET line == Strip(Head(lines)) IN
         IF line # <<>> /\ line[1] # "#"
         THEN <<line>> \o KeptLines(Tail(lines))
         ELSE KeptLines(Tail(lines))

\* read_docker_args on the docker-args file (a record exists, text):
\* ok = FALSE stands for the ValueError shlex.split raises.
ReadDockerArgs(file) ==
    IF ~file.exists THEN [ok |-> TRUE, tokens |-> <<>>]
    ELSE LET lines == KeptLines(SplitLines(file.text)) IN
         IF lines = <<>> THEN [ok |-> TRUE, tokens |-> <<>>]
         ELSE ShlexSplit(JoinSpace(lines))

\* ------------------------------------------------- setup_cursor_dirs
\* The four filesystem operations of setup_cursor_dirs, in order.  f is the
\* configuration tree: the two directories and the two files.
MkdirHome(f) == [f EXCEPT !.home = TRUE]

MkdirDocker(f) == [f EXCEPT !.docker = TRUE]

WriteDockerfile(f) ==
    IF f.dockerfile.exists THEN f
    ELSE [f EXCEPT !.dockerfile = [exists |-> TRUE, text |-> LStrip(DOCKERFILE)]]

\* Faulty variant: docker-args written without the exists() test.
WriteDockerArgsAlways(f) ==
    [f EXCEPT !.docker_args = [exists |-> TRUE, text |-> DEFAULT_DOCKER_ARGS]]

WriteDockerArgs(f) ==
    IF f.docker_args.exists THEN f
    ELSE [f EXCEPT !.docker_args = [exists |-> TRUE, text |-> DEFAULT_DOCKER_ARGS]]

\* setup_cursor_dirs when its first k operations succeed and the next one
\* raises OSError (k = 4: all succeed).
SetupDirs(f, k) ==
    LET f1 == IF k >= 1 THEN MkdirHome(f) ELSE f
        f2 == IF k >= 2 THEN MkdirDocker(f1) ELSE f1
        f3 == IF k >= 3 THEN WriteDockerfile(f2) ELSE f2
    IN  IF k >= 4 THEN WriteDockerArgs(f3) ELSE f3

\* ------------------------------------------------------------------ state
VARIABLES
    invocation,  \* number of the current program invocation
    pc,          \* position of the current invocation
    args,        \* the argparse.Namespace of the current invocation
    fs,          \* ~/.config/cursor-docker: home, docker, dockerfile, docker_args
    images,      \* versions v the toolchain holds an image cursor:v for
    page,        \* content: the decoded vendor page of the current invocation
    version,     \* the resolved version (<<>>: none)
    extra_args,  \* cmd_run's extra_args
    docker_cmd,  \* the argv handed to os.execvp (<<>>: none)
    exit_code,   \* exit status of the invocation (-1: running or replaced)
    stdout,      \* lines printed to stdout
    stderr,      \* lines printed to stderr
    log          \* external effects of the current invocation, in order

vars == <<invocation, pc, args, fs, images, page, version, extra_args,
          docker_cmd, exit_code, stdout, stderr, log>>

NoFile == [exists |-> FALSE, text |-> <<>>]

\* The command lines parse_args accepts: -V / --version with any subcommand.
\* Only the `run` subparser defines args.rebuild.
Argv ==
    {[version |-> v, command |-> c, has_rebuild |-> (c = "run"),
      rebuild |-> (c = "run" /\ r)] :
        v \in BOOLEAN, c \in {"none", "run", "config", "version"}, r \in BOOLEAN}

\* Vendor pages the network may answer with.
PageV1 == <<"<", "a", " ", "\"">> \o DownloadPrefix \o <<"1", "/", "x", "\"", ">">>
PageV2 == DownloadPrefix \o <<"2", "\"">>
PageNone == <<"<", "h", "t", "m", "l", ">">>
Pages == {PageV1, PageV2, PageNone}

\* docker-args files a user may write: the example of the specification
\* (a comment line, a blank line, "--memory 2g --cpus 2"), comments only,
\* and an unbalanced quote.
ExampleArgs ==
    <<"#", " ", "x", "\n", "\n",
      "-", "-", "m", "e", "m", "o", "r", "y", " ", "2", "g", " ",
      "-", "-", "c", "p", "u", "s", " ", "2", "\n">>
CommentArgs == <<" ", "#", "-", "v", "\n">>
BadQuoteArgs == <<"-", "e", " ", "'", "A">>
ArgFiles == {ExampleArgs, CommentArgs, BadQuoteArgs}

EditedDockerfile == <<"F", "R", "O", "M", " ", "a", "l", "p", "i", "n", "e", "\n">>

Init ==
    /\ invocation = 1
    /\ pc = "start"
    /\ args = [version |-> FALSE, command |-> "none", has_rebuild |-> FALSE,
               rebuild |-> FALSE]
    /\ fs = [home |-> FALSE, docker |-> FALSE, dockerfile |-> NoFile,
             docker_args |-> NoFile]
    /\ images = {}
    /\ page = <<>>
    /\ version = <<>>
    /\ extra_args = <<>>
    /\ docker_cmd = <<>>
    /\ exit_code = -1
    /\ stdout = <<>>
    /\ stderr = <<>>
    /\ log = <<>>

\* An uncaught exception: traceback, exit status 1.
Abort(event) ==
    /\ pc' = "exited"
    /\ exit_code' = 1
    /\ log' = Append(log, event)

VersionLine == <<"cursor-docker version ">> \o VERSION

\* ------------------------------------------------------------- operations
parse_args ==
    /\ pc = "start"
    /\ \E a \in Argv : args' = a
    /\ pc' = "main"
    /\ UNCHANGED <<invocation, fs, images, page, version, extra_args,
                   docker_cmd, exit_code, stdout, stderr, log>>

\* Faulty variant: the version flag tested after the subcommand dispatch.
main_flag_last ==
    /\ pc = "main"
    /\ IF args.command \in {"none", "run"}
       THEN /\ pc' = "cmd_run"
            /\ args' = IF args.has_rebuild THEN args
                       ELSE [args EXCEPT !.has_rebuild = TRUE, !.rebuild = FALSE]
       ELSE IF args.command = "config" THEN pc' = "cmd_config" /\ args' = args
       ELSE pc' = "cmd_version" /\ args' = args
    /\ UNCHANGED <<invocation, fs, images, page, version, extra_args,
                   docker_cmd, exit_code, stdout, stderr, log>>

main ==
    /\ pc = "main"
    /\ IF args.version THEN pc' = "cmd_version" /\ args' = args
       ELSE IF args.command \in {"none", "run"}
            THEN /\ pc' = "cmd_run"
                 /\ args' = IF args.has_rebuild THEN args
                            ELSE [args EXCEPT !.has_rebuild = TRUE,
                                              !.rebuild = FALSE]
       ELSE IF args.command = "config" THEN pc' = "cmd_config" /\ args' = args
       ELSE pc' = "cmd_version" /\ args' = args
    /\ UNCHANGED <<invocation, fs, images, page, version, extra_args,
                   docker_cmd, exit_code, stdout, stderr, log>>

\* What urlopen(...).read().decode() may give: an exception (net = FALSE)
\* or the page.
FetchResults(pages) ==
    {[net |-> FALSE, content |-> <<>>]}
        \cup {[net |-> TRUE, content |-> p] : p \in pages}

\* Faulty variant: cmd_version without its try/except.
cmd_version_uncaught(pages) ==
    /\ pc = "cmd_version"
    /\ \E r \in FetchResults(pages) :
         LET v == ParseVersion(r.content) IN
         /\ page' = r.content
         /\ stderr' = stderr
         /\ IF r.net /\ v.found
            THEN /\ version' = v.version
                 /\ stdout' = stdout \o <<VersionLine,
                                  <<"Latest Cursor version: ">> \o v.version>>
                 /\ log' = Append(log, "version_ok")
                 /\ pc' = "exited"
                 /\ exit_code' = 0
            ELSE /\ version' = version
                 /\ stdout' = Append(stdout, VersionLine)
                 /\ Abort(IF r.net THEN "pattern_fail" ELSE "fetch_fail")
    /\ UNCHANGED <<invocation, args, fs, images, extra_args, docker_cmd>>

cmd_version(pages) ==
    /\ pc = "cmd_version"
    /\ \E r \in FetchResults(pages) :
         LET v == ParseVersion(r.content) IN
         /\ page' = r.content
         /\ IF r.net /\ v.found
            THEN /\ version' = v.version
                 /\ stdout' = stdout \o <<VersionLine,
                                  <<"Latest Cursor version: ">> \o v.version>>
                 /\ stderr' = stderr
                 /\ log' = Append(log, "version_ok")
            ELSE /\ version' = version
                 /\ stdout' = Append(stdout, VersionLine)
                 /\ stderr' = Append(stderr, <<"Could not fetch Cursor version: ">>)
                 /\ log' = Append(log, IF r.net THEN "pattern_fail" ELSE "fetch_fail")
    /\ pc' = "exited"
    /\ exit_code' = 0
    /\ UNCHANGED <<invocation, args, fs, images, extra_args, docker_cmd>>

ConfigDir == "~/.config/cursor-docker"

\* Faulty variant: cmd_config taking its paths from setup_cursor_dirs.
cmd_config_provisions ==
    /\ pc = "cmd_config"
    /\ fs' = SetupDirs(fs, 4)
    /\ stdout' = Append(stdout, <<"Configuration directory: ", ConfigDir>>)
    /\ pc' = "exited"
    /\ exit_code' = 0
    /\ UNCHANGED <<invocation, args, images, page, version, extra_args,
                   docker_cmd, stderr, log>>

cmd_config ==
    /\ pc = "cmd_config"
    /\ stdout' = stdout \o
         << <<"Configuration directory: ", ConfigDir>>,
            <<"  Dockerfile:   ", ConfigDir, "/cursor-docker/Dockerfile">>,
            <<"  Docker args:  ", ConfigDir, "/cursor-docker/docker-args">>,
            <<"  Cursor home:  ", ConfigDir, "/cursor-home">>,
            <<"User IDs (used when building image):">>,
            <<"  UID: ", "os.getuid()">>,
            <<"  GID: ", "os.getgid()">> >>
    /\ pc' = "exited"
    /\ exit_code' = 0
    /\ UNCHANGED <<invocation, args, fs, images, page, version, extra_args,
                   docker_cmd, stderr, log>>

\* cmd_run, line 146.
setup_cursor_dirs ==
    /\ pc = "cmd_run"
    /\ \E k \in 0..4 :
         /\ fs' = SetupDirs(fs, k)
         /\ IF k = 4
            THEN /\ pc' = "resolve"
                 /\ log' = Append(log, "provision_ok")
                 /\ exit_code' = exit_code
            ELSE Abort("provision_fail")
    /\ UNCHANGED <<invocation, args, images, page, version, extra_args,
                   docker_cmd, stdout, stderr>>

\* Faulty variant: a failed fetch is tried a second time before giving up.
get_cursor_version_retry(pages) ==
    /\ pc = "resolve"
    /\ \E r \in FetchResults(pages) :
         LET v == ParseVersion(r.content) IN
         /\ page' = r.content
         /\ IF r.net /\ v.found
            THEN /\ version' = v.version
                 /\ pc' = "check_image"
                 /\ log' = Append(log, "version_ok")
                 /\ exit_code' = exit_code
            ELSE /\ version' = version
                 /\ pc' = "exited"
                 /\ exit_code' = 1
                 /\ log' = IF r.net THEN Append(log, "pattern_fail")
                           ELSE log \o <<"fetch_fail", "fetch_fail">>
    /\ UNCHANGED <<invocation, args, fs, images, extra_args, docker_cmd,
                   stdout, stderr>>

\* cmd_run, line 148.
get_cursor_version(pages) ==
    /\ pc = "resolve"
    /\ \E r \in FetchResults(pages) :
         LET v == ParseVersion(r.content) IN
         /\ page' = r.content
         /\ IF r.net /\ v.found
            THEN /\ version' = v.version
                 /\ pc' = "check_image"
                 /\ log' = Append(log, "version_ok")
                 /\ exit_code' = exit_code
            ELSE /\ version' = version
                 /\ Abort(IF r.net THEN "pattern_fail" ELSE "fetch_fail")
    /\ UNCHANGED <<invocation, args, fs, images, extra_args, docker_cmd,
                   stdout, stderr>>

\* Faulty variant: `args.rebuild and not docker_image_exists(image)`.
docker_image_exists_and ==
    /\ pc = "check_image"
    /\ IF ~args.rebuild
       THEN pc' = "read_args" /\ log' = log
       ELSE IF version \in images
            THEN pc' = "read_args" /\ log' = Append(log, "inspect_hit")
            ELSE pc' = "build" /\ log' = Append(log, "inspect_miss")
    /\ UNCHANGED <<invocation, args, fs, images, page, version, extra_args,
                   docker_cmd, exit_code, stdout, stderr>>

\* Faulty variant: the build left out when the image is missing.
docker_image_exists_no_build ==
    /\ pc = "check_image"
    /\ IF args.rebuild
       THEN pc' = "build" /\ log' = log
       ELSE /\ pc' = "read_args"
            /\ log' = Append(log, IF version \in images THEN "inspect_hit"
                                  ELSE "inspect_miss")
    /\ UNCHANGED <<invocation, args, fs, images, page, version, extra_args,
                   docker_cmd, exit_code, stdout, stderr>>

\* cmd_run, line 151: `args.rebuild or not docker_image_exists(image)`.
\* With --rebuild the image is not inspected.  images is the toolchain's
\* view: `docker image inspect cursor:v` returns 0 exactly for v in images
\* (the toolchain is installed and answers).
docker_image_exists ==
    /\ pc = "check_image"
    /\ IF args.rebuild
       THEN pc' = "build" /\ log' = log
       ELSE IF version \in images
            THEN pc' = "read_args" /\ log' = Append(log, "inspect_hit")
            ELSE pc' = "build" /\ log' = Append(log, "inspect_miss")
    /\ UNCHANGED <<invocation, args, fs, images, page, version, extra_args,
                   docker_cmd, exit_code, stdout, stderr>>

\* Faulty variant: subprocess.run without check=True, a failed build goes unnoticed.
build_docker_image_unchecked ==
    /\ pc = "build"
    /\ stdout' = stdout \o
         << <<"Docker image 'cursor' not found. Building version ">> \o version,
            <<"Using UID=", "os.getuid()", ", GID=", "os.getgid()">> >>
    /\ \E built \in BOOLEAN :
         /\ images' = IF built THEN images \cup {version} ELSE images
         /\ log' = Append(log, IF built THEN "build_ok" ELSE "build_fail")
    /\ pc' = "read_args"
    /\ UNCHANGED <<invocation, args, fs, page, version, extra_args,
                   docker_cmd, exit_code, stderr>>

\* cmd_run, line 152: subprocess.run(..., check=True) either tags
\* cursor:<version> or raises CalledProcessError.
build_docker_image ==
    /\ pc = "build"
    /\ stdout' = stdout \o
         << <<"Docker image 'cursor' not found. Building version ">> \o version,
            <<"Using UID=", "os.getuid()", ", GID=", "os.getgid()">> >>
    /\ \E built \in BOOLEAN :
         IF built
         THEN /\ images' = images \cup {version}
              /\ pc' = "read_args"
              /\ log' = Append(log, "build_ok")
              /\ exit_code' = exit_code
         ELSE /\ images' = images
              /\ Abort("build_fail")
    /\ UNCHANGED <<invocation, args, fs, page, version, extra_args,
                   docker_cmd, stderr>>

\* cmd_run, line 154.
read_docker_args ==
    /\ pc = "read_args"
    /\ LET r == ReadDockerArgs(fs.docker_args) IN
         IF r.ok
         THEN /\ extra_args' = r.tokens
              /\ pc' = "exec"
              /\ log' = Append(log, "args_ok")
              /\ exit_code' = exit_code
         ELSE /\ extra_args' = extra_args
              /\ Abort("args_fail")
    /\ UNCHANGED <<invocation, args, fs, images, page, version, docker_cmd,
                   stdout, stderr>>

\* cmd_run, lines 156-162.
DockerCmd(extra, v) ==
    << <<"docker">>, <<"run">>, <<"-it">>, <<"--rm">>, <<"-v">>,
       <<ConfigDir, "/cursor-home", ":/workspace">> >>
      \o extra
      \o << <<"cursor:">> \o v, <<"/bin/bash">> >>

\* cmd_run, line 164: os.execvp replaces the process, or raises OSError.
execvp ==
    /\ pc = "exec"
    /\ \E replaced \in BOOLEAN :
         IF replaced
         THEN /\ docker_cmd' = DockerCmd(extra_args, version)
              /\ pc' = "launched"
              /\ log' = Append(log, "exec_ok")
              /\ exit_code' = exit_code
         ELSE /\ docker_cmd' = docker_cmd
              /\ Abort("exec_fail")
    /\ UNCHANGED <<invocation, args, fs, images, page, version, extra_args,
                   stdout, stderr>>

\* ------------------------------------------------------------ environment
\* Between invocations the user edits or removes the two files.
user_edit ==
    /\ pc = "start"
    /\ fs.docker
    /\ \/ \E t \in ArgFiles :
            fs' = [fs EXCEPT !.docker_args = [exists |-> TRUE, text |-> t]]
       \/ fs' = [fs EXCEPT !.dockerfile = [exists |-> TRUE, text |-> EditedDockerfile]]
       \/ fs.docker_args.exists /\ fs' = [fs EXCEPT !.docker_args = NoFile]
    /\ UNCHANGED <<invocation, pc, args, images, page, version, extra_args,
                   docker_cmd, exit_code, stdout, stderr, log>>

\* The program is started again after it exited or the container ended.
next_invocation ==
    /\ pc \in {"exited", "launched"}
    /\ invocation < MaxInvocations
    /\ invocation' = invocation + 1
    /\ pc' = "start"
    /\ page' = <<>>
    /\ version' = <<>>
    /\ extra_args' = <<>>
    /\ docker_cmd' = <<>>
    /\ exit_code' = -1
    /\ stdout' = <<>>
    /\ stderr' = <<>>
    /\ log' = <<>>
    /\ UNCHANGED <<args, fs, images>>

Next ==
    \/ parse_args
    \/ main
    \/ cmd_version(Pages)
    \/ cmd_config
    \/ setup_cursor_dirs
    \/ get_cursor_version(Pages)
    \/ docker_image_exists
    \/ build_docker_image
    \/ read_docker_args
    \/ execvp
    \/ user_edit
    \/ next_invocation

Spec == Init /\ [][Next]_vars

\* ------------------------------------- specification: get_cursor_version
\* Vendor pages built from up to MaxBodyLen pieces: the download prefix
\* ("P"), the two characters that end a version, and version characters.
BodyPieces == {"P", "/", "\"", "1", "2"}

Piece(c) == IF c = "P" THEN DownloadPrefix ELSE <<c>>

RECURSIVE Expand(_)
Expand(b) == IF b = <<>> THEN <<>> ELSE Piece(Head(b)) \o Expand(Tail(b))

AllBodies == {Expand(b) : b \in UNION {[1..n -> BodyPieces] : n \in 0..MaxBodyLen}}

\* The two places the version is resolved at: cmd_version (after
\* `cursor-docker version`) and cmd_run line 148 (after provisioning).
InitVer ==
    /\ invocation = 1
    /\ \/ /\ pc = "cmd_version"
          /\ args = [version |-> FALSE, command |-> "version",
                     has_rebuild |-> FALSE, rebuild |-> FALSE]
          /\ fs = [home |-> FALSE, docker |-> FALSE, dockerfile |-> NoFile,
                   docker_args |-> NoFile]
          /\ log = <<>>
       \/ /\ pc = "resolve"
          /\ args = [version |-> FALSE, command |-> "run",
                     has_rebuild |-> TRUE, rebuild |-> FALSE]
          /\ fs = SetupDirs([home |-> FALSE, docker |-> FALSE,
                             dockerfile |-> NoFile, docker_args |-> NoFile], 4)
          /\ log = <<"provision_ok">>
    /\ images = {}
    /\ page = <<>>
    /\ version = <<>>
    /\ extra_args = <<>>
    /\ docker_cmd = <<>>
    /\ exit_code = -1
    /\ stdout = <<>>
    /\ stderr = <<>>

NextVer == cmd_version(AllBodies) \/ get_cursor_version(AllBodies)

SpecVer == InitVer /\ [][NextVer]_vars

\* --------------------------------------- specification: read_docker_args
FileAlphabet == {" ", "#", "a", "b", "'", "\n"}

AllFiles == UNION {[1..n -> FileAlphabet] : n \in 0..MaxFileLen}

\* cmd_run at line 154, the image cursor:1 found: the docker-args file holds
\* any text a user may have written, or was removed since provisioning.
InitArgs ==
    /\ invocation = 1
    /\ pc = "read_args"
    /\ args = [version |-> FALSE, command |-> "run", has_rebuild |-> TRUE,
               rebuild |-> FALSE]
    /\ \E file \in {NoFile} \cup {[exists |-> TRUE, text |-> t] : t \in AllFiles} :
         fs = [home |-> TRUE, docker |-> TRUE,
               dockerfile |-> [exists |-> TRUE, text |-> LStrip(DOCKERFILE)],
               docker_args |-> file]
    /\ images = {<<"1">>}
    /\ page = PageV1
    /\ version = <<"1">>
    /\ extra_args = <<>>
    /\ docker_cmd = <<>>
    /\ exit_code = -1
    /\ stdout = <<>>
    /\ stderr = <<>>
    /\ log = <<"provision_ok", "version_ok", "inspect_hit">>

NextArgs == read_docker_args \/ execvp

SpecArgs == InitArgs /\ [][NextArgs]_vars

\* ----------------------------------------------------------------- claims
FetchEvents == {"version_ok", "pattern_fail", "fetch_fail"}
BuildEvents == {"build_ok", "build_fail"}
InspectEvents == {"inspect_hit", "inspect_miss"}
ExecEvents == {"exec_ok", "exec_fail"}
ProvisionEvents == {"provision_ok", "provision_fail"}
FailEvents == {"provision_fail", "fetch_fail", "pattern_fail", "build_fail",
               "args_fail", "exec_fail"}

Count(events) == Cardinality({i \in DOMAIN log : log[i] \in events})
Has(event) == \E i \in DOMAIN log : log[i] = event
Before(events, i) == \E j \in 1..(i - 1) : log[j] \in events

\* args holds the current invocation's command line once parse_args ran.
Parsed == pc # "start"
RunPath == ~args.version /\ args.command \in {"none", "run"}
VersionPath == args.version \/ args.command = "version"
Terminated == pc \in {"exited", "launched"}

\* The builder invocations of a run whose version is resolved, counted
\* once the run is past the build.
C1_Decided ==
    (Parsed /\ RunPath /\ Has("version_ok")) =>
        /\ Count(BuildEvents) <= 1
        /\ pc \notin {"check_image", "build"} =>
             /\ args.rebuild => Count(BuildEvents) = 1
             /\ (~args.rebuild /\ Has("inspect_hit")) => Count(BuildEvents) = 0
             /\ (~args.rebuild /\ Has("inspect_miss")) => Count(BuildEvents) = 1
             /\ ~args.rebuild => Count(InspectEvents) = 1

\* The step taken at line 151.
C1_Decision ==
    pc = "check_image" =>
        /\ (~args.rebuild /\ version \in images) => pc' = "read_args"
        /\ (args.rebuild \/ version \notin images) => pc' = "build"

\* C1 -- in the run path, once the version is resolved: the image exists
\* and no --rebuild: the builder is never invoked; --rebuild: it is invoked
\* exactly once whether or not the image exists; image absent and no
\* --rebuild: it is invoked exactly once.
C1_BuilderInvocation == []C1_Decided /\ [][C1_Decision]_vars

C1_Witness ==
    /\ pc = "launched" /\ RunPath /\ ~args.rebuild
    /\ Has("inspect_hit") /\ Count(BuildEvents) = 0 /\ version \in images

\* The order of a run's effects, and what each position presupposes.
C2_Order ==
    (Parsed /\ RunPath) =>
        /\ \A i \in DOMAIN log :
             /\ log[i] \in FetchEvents => Before({"provision_ok"}, i)
             /\ log[i] \in InspectEvents \cup BuildEvents =>
                    Before({"version_ok"}, i)
             /\ log[i] \in ExecEvents => Before({"inspect_hit", "build_ok"}, i)
             /\ log[i] = "exec_ok" => i = Len(log)
        /\ pc = "resolve" => Has("provision_ok")
        /\ pc \in {"check_image", "build"} => Has("version_ok") /\ version # <<>>
        /\ pc \in {"read_args", "exec", "launched"} =>
               (Has("inspect_hit") \/ Has("build_ok")) /\ version \in images
        /\ Has("exec_ok") <=> pc = "launched"

\* After the launch only a new invocation follows.
C2_LaunchedTerminal ==
    pc = "launched" =>
        /\ pc' = "start" /\ invocation' = invocation + 1
        /\ fs' = fs /\ images' = images

\* C2 -- a run passes Provisioner, Resolver, (Builder), Launcher in that
\* order: no fetch before provisioning completed, no existence check or
\* build before the version is resolved, no launch before the image was
\* found or built, and nothing of the invocation follows the launch.
C2_LinearFlow == []C2_Order /\ [][C2_LaunchedTerminal]_vars

C2_Witness ==
    /\ pc = "launched"
    /\ log = <<"provision_ok", "version_ok", "inspect_miss", "build_ok",
               "args_ok", "exec_ok">>

\* C3 -- in the run path nothing is retried and any failure ends the
\* invocation with a non-zero status before the launch; fetch, build and
\* launch are each attempted at most once.
C3_NoRetryAbort ==
    (Parsed /\ RunPath) =>
        /\ \A i \in DOMAIN log :
             log[i] \in FailEvents =>
                 /\ i = Len(log)
                 /\ pc = "exited" /\ exit_code # 0 /\ exit_code # -1
                 /\ docker_cmd = <<>>
        /\ Count(ProvisionEvents) <= 1
        /\ Count(FetchEvents) <= 1
        /\ Count(InspectEvents) <= 1
        /\ Count(BuildEvents) <= 1
        /\ Count(ExecEvents) <= 1
        /\ Has("provision_fail") =>
               Count(FetchEvents \cup InspectEvents \cup BuildEvents \cup ExecEvents) = 0
        /\ (Has("fetch_fail") \/ Has("pattern_fail")) =>
               Count(InspectEvents \cup BuildEvents \cup ExecEvents) = 0
        /\ Has("build_fail") => Count(ExecEvents) = 0
        /\ pc = "exited" => Count(FailEvents) = 1

C3_Witness ==
    /\ pc = "exited" /\ RunPath /\ exit_code = 1
    /\ log = <<"provision_ok", "version_ok", "inspect_miss", "build_fail">>

\* The files provisioning writes, and what one call of setup_cursor_dirs
\* may change.
DefaultDockerfile ==
    [exists |-> TRUE, text |-> SubSeq(DOCKERFILE, 2, Len(DOCKERFILE))]
DefaultDockerArgs == [exists |-> TRUE, text |-> <<>>]

C4_ProvisionStep ==
    pc = "cmd_run" =>
        /\ fs.dockerfile.exists => fs'.dockerfile = fs.dockerfile
        /\ fs.docker_args.exists => fs'.docker_args = fs.docker_args
        /\ fs'.dockerfile # fs.dockerfile => fs'.dockerfile = DefaultDockerfile
        /\ fs'.docker_args # fs.docker_args => fs'.docker_args = DefaultDockerArgs
        /\ (fs.home => fs'.home) /\ (fs.docker => fs'.docker)
        /\ pc' = "resolve" =>
             /\ fs'.home /\ fs'.docker
             /\ fs'.dockerfile.exists /\ fs'.docker_args.exists
             /\ \A k \in 0..4 : SetupDirs(fs', k) = fs'

\* C4 -- provisioning is idempotent and never overwrites user content: a
\* file that exists keeps its content, whatever it is; a file is written,
\* with its default, only when it is absent; provisioning again after a
\* completed provisioning changes nothing.
C4_ProvisionIdempotent == [][C4_ProvisionStep]_vars

C4_Witness ==
    /\ invocation = 2 /\ pc = "resolve"
    /\ fs.docker_args.text = ExampleArgs
    /\ fs.dockerfile.text = EditedDockerfile

\* C5 (as stated) -- the version subcommand catches a failed remote fetch
\* only: every other failure ends the program with a non-zero status.
C5_OnlyFetchCaught ==
    pc = "exited" =>
        /\ (VersionPath /\ Has("fetch_fail")) =>
               exit_code = 0 /\ stdout = <<VersionLine>> /\ stderr # <<>>
        /\ (\E i \in DOMAIN log :
               log[i] \in FailEvents /\ ~(VersionPath /\ log[i] = "fetch_fail")) =>
               exit_code # 0

\* C5 (amended) -- the version subcommand catches every failure of the
\* version resolution, a failed fetch and a page without the pattern alike:
\* it prints the tool's own version, a warning on stderr, and ends with
\* status 0.  Every failure of the run path ends with a non-zero status.
C5_VersionCatchesResolution ==
    pc = "exited" =>
        /\ VersionPath =>
             /\ exit_code = 0
             /\ stdout # <<>> /\ stdout[1] = VersionLine
             /\ (Has("fetch_fail") \/ Has("pattern_fail")) =>
                    /\ stdout = <<VersionLine>>
                    /\ stderr = << <<"Could not fetch Cursor version: ">> >>
             /\ Has("version_ok") =>
                    /\ stdout = <<VersionLine, <<"Latest Cursor version: ">> \o version>>
                    /\ stderr = <<>>
        /\ (RunPath /\ Count(FailEvents) > 0) => exit_code = 1

C5_Witness ==
    /\ pc = "exited" /\ VersionPath /\ Has("pattern_fail")
    /\ exit_code = 0 /\ stdout = <<VersionLine>> /\ stderr # <<>>

\* C6 -- with the top-level version flag, whatever subcommand comes with
\* it, the program prints the version information and exits: nothing is
\* provisioned, inspected, built or launched.
C6_VersionFlagFirst ==
    (Parsed /\ args.version) =>
        /\ pc \in {"main", "cmd_version", "exited"}
        /\ \A i \in DOMAIN log : log[i] \in FetchEvents
        /\ docker_cmd = <<>>
        /\ pc = "exited" => exit_code = 0 /\ stdout # <<>> /\ stdout[1] = VersionLine

C6_Witness ==
    /\ pc = "exited" /\ args.version /\ args.command = "run" /\ args.rebuild
    /\ stdout # <<>> /\ ~fs.home

\* C7 (as stated) -- every invocation, whatever it dispatches to, fetches
\* the vendor URL exactly once.  Stated for the invocations that run to
\* their end: exit status 0, or the launch.
C7_OneFetchAlways ==
    (Parsed /\ (pc = "launched" \/ (pc = "exited" /\ exit_code = 0))) =>
        Count(FetchEvents) = 1

\* C7 (amended) -- an invocation fetches the vendor URL at most once:
\* exactly once under `version` or the version flag, exactly once in the run
\* path when provisioning succeeded, never under `config` or when
\* provisioning failed; nothing is kept from an earlier invocation.
C7_FetchPerInvocation ==
    /\ Count(FetchEvents) <= 1
    /\ (Parsed /\ Terminated) =>
         Count(FetchEvents) =
             IF VersionPath THEN 1
             ELSE IF RunPath /\ Has("provision_ok") THEN 1
             ELSE 0
    /\ pc \in {"start", "main"} => Count(FetchEvents) = 0 /\ version = <<>>

C7_Witness ==
    /\ invocation = 2 /\ pc = "launched" /\ Count(FetchEvents) = 1
    /\ Cardinality(images) = 2

\* What an invocation outside the run path never does, as a state and as
\* a step.
C10_NoEffects ==
    (Parsed /\ ~RunPath) =>
        /\ \A i \in DOMAIN log : log[i] \in FetchEvents
        /\ pc \notin {"cmd_run", "resolve", "check_image", "build", "read_args",
                      "exec", "launched"}
        /\ docker_cmd = <<>>

C10_Frame ==
    (Parsed /\ ~RunPath) => fs' = fs /\ images' = images /\ docker_cmd' = docker_cmd

\* C10 -- `config`, `version` and the version flag leave the configuration
\* tree and the container toolchain alone: no directory or file is created
\* or changed, nothing is inspected, built or launched; only the run path
\* does any of that.
C10_OnlyRunActs == []C10_NoEffects /\ [][C10_Frame]_vars

C10_Witness ==
    /\ pc = "exited" /\ args.command = "config" /\ ~args.version
    /\ ~fs.home /\ ~fs.docker /\ exit_code = 0 /\ Len(stdout) = 7

\* The characterisation below reads the file position by position instead
\* of splitting, stripping and joining it.
ArgsText == fs.docker_args.text

\* The characters of a sequence of tokens, and a text without some characters.
RECURSIVE Flatten(_)
Flatten(ss) == IF ss = <<>> THEN <<>> ELSE Head(ss) \o Flatten(Tail(ss))

Without(s, drop) == SelectSeq(s, LAMBDA c : c \notin drop)

Min(S) == CHOOSE x \in S : \A y \in S : x <= y
Max(S) == CHOOSE x \in S : \A y \in S : x >= y

\* First and last position of the line position p lies in.
LineFirst(p) == 1 + Max({0} \cup {q \in 1..(p - 1) : ArgsText[q] \in LineBreaks})
LineLast(p) ==
    Min({Len(ArgsText) + 1} \cup {q \in p..Len(ArgsText) : ArgsText[q] \in LineBreaks}) - 1

\* Position p lies in a line that is kept: the line's first non-blank
\* character exists and is not #.
Live(p) ==
    /\ ArgsText[p] \notin LineBreaks
    /\ LET ink == {q \in LineFirst(p)..LineLast(p) : ArgsText[q] \notin Whitespace}
       IN  ink # {} /\ ArgsText[Min(ink)] # "#"

LivePositions == {p \in 1..Len(ArgsText) : Live(p)}
LiveQuotes == {p \in LivePositions : ArgsText[p] \in ShlexQuotes}

\* The k-th smallest element of a set of positions.
Nth(S, k) == CHOOSE p \in S : Cardinality({q \in S : q < p}) = k - 1

\* The non-blank, non-quote characters of the kept lines, in file order.
LiveInk ==
    LET ink == {p \in LivePositions : ArgsText[p] \notin Whitespace \cup ShlexQuotes}
    IN  [k \in 1..Cardinality(ink) |-> ArgsText[Nth(ink, k)]]

\* Where a word of a kept line starts, and where the word starting at p ends.
WordStarts ==
    {p \in LivePositions :
        /\ ArgsText[p] \notin Whitespace
        /\ p = LineFirst(p) \/ ArgsText[p - 1] \in Whitespace}
WordEnd(p) ==
    Min({LineLast(p) + 1} \cup {q \in p..LineLast(p) : ArgsText[q] \in Whitespace}) - 1

\* tokens are the tokens of the kept lines of the docker-args file.
C8_Tokens(tokens) ==
    IF ~fs.docker_args.exists THEN tokens = <<>>
    ELSE /\ Without(Flatten(tokens), Whitespace) = LiveInk
         /\ LivePositions = {} => tokens = <<>>
         /\ LiveQuotes = {} =>
              /\ Len(tokens) = Cardinality(WordStarts)
              /\ \A k \in 1..Len(tokens) :
                   LET p == Nth(WordStarts, k)
                   IN  tokens[k] = SubSeq(ArgsText, p, WordEnd(p))

\* The example: a comment line, a blank line, "--memory 2g --cpus 2".
C8_Example ==
    ReadDockerArgs([exists |-> TRUE, text |-> ExampleArgs]) =
        [ok |-> TRUE,
         tokens |-> << <<"-", "-", "m", "e", "m", "o", "r", "y">>, <<"2", "g">>,
                       <<"-", "-", "c", "p", "u", "s">>, <<"2">> >>]

\* C8 -- read_docker_args returns the tokens of exactly the lines that are
\* not blank and do not start (after blanks) with #, in file order; blank
\* and comment lines give no token; a missing file, or one of blank and
\* comment lines only, gives the empty sequence; the tokens go, as they are
\* and in order, between the bind mount and the image tag of the launch
\* command.
C8_ExtraArgs ==
    /\ C8_Example
    /\ pc \in {"exec", "launched"} =>
         /\ C8_Tokens(extra_args)
         /\ fs.docker_args.exists => Cardinality(LiveQuotes) % 2 = 0
    /\ Has("args_fail") =>
         /\ fs.docker_args.exists /\ Cardinality(LiveQuotes) % 2 = 1
         /\ pc = "exited" /\ exit_code = 1
    /\ pc = "launched" =>
         /\ Len(docker_cmd) = Len(extra_args) + 8
         /\ SubSeq(docker_cmd, 1, 5) =
                << <<"docker">>, <<"run">>, <<"-it">>, <<"--rm">>, <<"-v">> >>
         /\ docker_cmd[6] = <<ConfigDir, "/cursor-home", ":/workspace">>
         /\ \A k \in 1..Len(extra_args) : docker_cmd[6 + k] = extra_args[k]
         /\ docker_cmd[Len(docker_cmd) - 1] = <<"cursor:">> \o version
         /\ docker_cmd[Len(docker_cmd)] = <<"/bin/bash">>

C8_Witness ==
    /\ pc = "launched"
    /\ ArgsText = <<"#", "\n", "b", " ", "a">>
    /\ extra_args = << <<"b">>, <<"a">> >>
    /\ Len(docker_cmd) = Len(extra_args) + 8

\* An occurrence is a position the prefix stands at with a character other
\* than / and " after it.
PrefixLen == Len(DownloadPrefix)

Occurrences ==
    {i \in 1..Len(page) :
        /\ i + PrefixLen <= Len(page)
        /\ \A k \in 1..PrefixLen : page[i + k - 1] = DownloadPrefix[k]
        /\ page[i + PrefixLen] # "/" /\ page[i + PrefixLen] # "\""}

TokenOf(i) ==
    LET first == i + PrefixLen
        stop == Min({Len(page) + 1} \cup
                    {q \in first..Len(page) : page[q] = "/" \/ page[q] = "\""})
    IN  SubSeq(page, first, stop - 1)

\* C9 -- for a page holding the download-path pattern the resolver returns
\* the token of the first occurrence: the characters after the prefix up to
\* the next / or " (or the end of the page), and nothing else; for a page
\* without the pattern it fails with "Could not find Cursor version" and
\* returns no version.
C9_Resolver ==
    /\ Has("version_ok") =>
         /\ Occurrences # {}
         /\ version = TokenOf(Min(Occurrences))
         /\ version # <<>>
         /\ \A k \in DOMAIN version : version[k] \notin {"/", "\""}
    /\ Has("pattern_fail") =>
         /\ Occurrences = {}
         /\ version = <<>>
         /\ pc = "exited"
         /\ \A l \in DOMAIN stdout : stdout[l] = VersionLine
    /\ (Terminated \/ pc = "check_image") =>
         (Occurrences # {} => Has("version_ok"))
    /\ (pc = "exited" /\ VersionPath /\ Has("version_ok")) =>
         stdout[2] = <<"Latest Cursor version: ">> \o version

C9_Witness ==
    /\ Has("version_ok")
    /\ page = <<"\"">> \o DownloadPrefix \o <<"2", "\"">>
    /\ version = <<"2">>

====
